---- MODULE Spec2Model ----
(***************************************************************************)
(* Model of brand63-autoblog (src/main.py): one run of the pipeline        *)
(*   get_blog_id_by_handle -> pick_topic_and_products -> openai_generate   *)
(*   -> image blocks -> publish_article                                    *)
(* together with the calendar logic of get_season_mode.                    *)
(*                                                                         *)
(* Text is modelled as a sequence of runs [k, n, url]: k is the kind of    *)
(* the run ("text", "space", "sym" for the characters # and |, "tag" for   *)
(* a markup tag, "link" for an anchor tag), n its length in characters     *)
(* and url the target of an anchor.  Lengths, strip() and slicing are      *)
(* computed on the runs exactly as Python computes them on characters.     *)
(***************************************************************************)
EXTENDS Integers, Sequences, FiniteSets, TLC

\* ------------------------------------------------------------------ bounds
NumProducts == 6        \* product identifiers 1..NumProducts in the store
NumYears    == 2        \* calendar years swept by the clock
HourStep    == 8        \* the clock advances in steps of HourStep hours
StartYear   == 2023     \* first year of the sweep

\* ------------------------------------------------------- program constants
PICKS_PER_POST         == 3
FRESH_SAMPLE_WINDOW    == 120
HOLIDAY_LOOKAHEAD_DAYS == 45
PACIFIC_SHIFT_HOURS    == 8
BH_RAMP_DAYS           == 15
EXCERPT_FALLBACK_LEN   == 200
EXCERPT_CAP            == 250
META_CAP               == 300
TITLE_CAP              == 250

Min(a, b) == IF a <= b THEN a ELSE b

\* =========================================================================
\* DATE + HOLIDAY LOGIC
\* =========================================================================
IsLeap(y) == (y % 4 = 0 /\ y % 100 # 0) \/ y % 400 = 0

DaysInMonth(y, m) ==
    CASE m = 2 -> IF IsLeap(y) THEN 29 ELSE 28
      [] m \in {4, 6, 9, 11} -> 30
      [] OTHER -> 31

DaysInYear(y) == IF IsLeap(y) THEN 366 ELSE 365

RECURSIVE DaysBeforeMonth(_, _)
DaysBeforeMonth(y, m) ==
    IF m = 1 THEN 0 ELSE DaysBeforeMonth(y, m - 1) + DaysInMonth(y, m - 1)

\* days from 1 January of StartYear - 1 to 1 January of y
RECURSIVE DaysBeforeYear(_)
DaysBeforeYear(y) ==
    IF y <= StartYear - 1 THEN 0 ELSE DaysBeforeYear(y - 1) + DaysInYear(y - 1)

\* date.toordinal(), up to a constant offset
Ordinal(dt) == DaysBeforeYear(dt.y) + DaysBeforeMonth(dt.y, dt.m) + dt.d

PrevDay(dt) ==
    IF dt.d > 1 THEN [dt EXCEPT !.d = dt.d - 1]
    ELSE IF dt.m > 1 THEN [dt EXCEPT !.m = dt.m - 1, !.d = DaysInMonth(dt.y, dt.m - 1)]
    ELSE [dt EXCEPT !.y = dt.y - 1, !.m = 12, !.d = 31]

NextDay(dt) ==
    IF dt.d < DaysInMonth(dt.y, dt.m) THEN [dt EXCEPT !.d = dt.d + 1]
    ELSE IF dt.m < 12 THEN [dt EXCEPT !.m = dt.m + 1, !.d = 1]
    ELSE [dt EXCEPT !.y = dt.y + 1, !.m = 1, !.d = 1]

\* datetime + timedelta(hours=-8)
ShiftPacific(dt) ==
    IF dt.h >= PACIFIC_SHIFT_HOURS
    THEN [dt EXCEPT !.h = dt.h - PACIFIC_SHIFT_HOURS]
    ELSE [PrevDay(dt) EXCEPT !.h = dt.h + 24 - PACIFIC_SHIFT_HOURS]

\* now_pacific(): the UTC clock shifted by -8 hours
now_pacific(clock) == ShiftPacific(clock)

\* (t - n).days for the dates of two datetimes
DaysBetween(t, n) == Ordinal(t) - Ordinal(n)

within_days(clock, target_date, days) ==
    LET diff == DaysBetween(target_date, now_pacific(clock))
    IN  0 <= diff /\ diff <= days

get_season_mode(clock) ==
    LET n     == now_pacific(clock)
        feb_1 == ShiftPacific([y |-> n.y, m |-> 2, d |-> 1, h |-> 0])
        vday  == ShiftPacific([y |-> n.y, m |-> 2, d |-> 14, h |-> 0])
    IN  IF n.m = 2 \/ (n.m = 1 /\ DaysBetween(feb_1, n) <= BH_RAMP_DAYS)
        THEN "black_history"
        ELSE IF within_days(clock, vday, HOLIDAY_LOOKAHEAD_DAYS)
        THEN "valentines"
        ELSE "None"

\* =========================================================================
\* TEXT
\* =========================================================================
NoUrl == <<"none">>

Txt(n)  == [k |-> "text",  n |-> n, url |-> NoUrl]
Spc(n)  == [k |-> "space", n |-> n, url |-> NoUrl]
Sym(n)  == [k |-> "sym",   n |-> n, url |-> NoUrl]
Tag(n)  == [k |-> "tag",   n |-> n, url |-> NoUrl]
Link(u) == [k |-> "link",  n |-> 12, url |-> u]

RECURSIVE StrLen(_)
StrLen(s) == IF s = <<>> THEN 0 ELSE Head(s).n + StrLen(Tail(s))

\* s[:n]
RECURSIVE Slice(_, _)
Slice(s, n) ==
    IF s = <<>> \/ n <= 0 THEN <<>>
    ELSE IF Head(s).n <= n THEN <<Head(s)>> \o Slice(Tail(s), n - Head(s).n)
    ELSE <<[Head(s) EXCEPT !.n = n]>>

RECURSIVE LStrip(_)
LStrip(s) ==
    IF s = <<>> THEN <<>>
    ELSE IF Head(s).k = "space" THEN LStrip(Tail(s)) ELSE s

RECURSIVE RStrip(_)
RStrip(s) ==
    IF s = <<>> THEN <<>>
    ELSE IF s[Len(s)].k = "space" THEN RStrip(SubSeq(s, 1, Len(s) - 1)) ELSE s

\* str.strip()
Strip(s) == RStrip(LStrip(s))

\* re.sub(r"<[^>]*>", " ", html or "").strip()
RECURSIVE SubTags(_)
SubTags(s) ==
    IF s = <<>> THEN <<>>
    ELSE (IF Head(s).k \in {"tag", "link"} THEN <<Spc(1)>> ELSE <<Head(s)>>)
         \o SubTags(Tail(s))

strip_tags(html) == Strip(SubTags(html))

\* .replace("#", "").replace("|", "")
RECURSIVE RemoveSyms(_)
RemoveSyms(s) ==
    IF s = <<>> THEN <<>>
    ELSE (IF Head(s).k = "sym" THEN <<>> ELSE <<Head(s)>>) \o RemoveSyms(Tail(s))

\* the targets of the anchors of a piece of markup
LinkTargets(s) == {s[i].url : i \in {j \in 1..Len(s) : s[j].k = "link"}}

\* =========================================================================
\* THE STORE (what the Shopify Admin API answers)
\* =========================================================================
BLOG_HANDLE == "trendsetter-news"

SEASON_COLLECTION_HANDLES(season) ==
    CASE season = "valentines"    -> <<"valentines-day", "valentines-gifts">>
      [] season = "black_history" -> <<"black-history-vibe-collection", "black-history-vibe">>
      [] season = "evergreen_priority" ->
             <<"top-new-arrivals", "womens-urban-style", "mens-urban-style">>
      [] OTHER -> <<>>

\* (h or "").strip().lower() on the handles that occur in the store
NormHandle(h) ==
    CASE h = "Black-History-Vibe " -> "black-history-vibe"
      [] OTHER -> h

\* the product records of the backend, as products.json lists them
RawProduct(i) ==
    [id         |-> i,
     title      |-> <<Txt(4 + i)>>,
     handle     |-> i,
     created_at |-> (i + 1) \div 2,
     status     |-> IF i = 1 THEN "draft" ELSE IF i = 3 THEN "" ELSE "active",
     images     |-> IF i = 2 THEN <<>> ELSE <<i>>]

ProductUrl(handle) == <<"products", handle>>
BlogPostUrl(handle) == <<"blogs", BLOG_HANDLE, handle>>
ExternalUrl == <<"external", 0>>

\* the dict built at lines 143-152 and 168-177 (tags and vendor are never read)
ProductRecord(p) ==
    [id         |-> p.id,
     title      |-> p.title,
     handle     |-> p.handle,
     created_at |-> p.created_at,
     url        |-> ProductUrl(p.handle),
     image      |-> p.images[1]]

RECURSIVE FilterCollectionProducts(_)
FilterCollectionProducts(raw) ==
    IF raw = <<>> THEN <<>>
    ELSE LET p == Head(raw)
         IN  (IF (p.status # "" /\ p.status # "active") \/ p.images = <<>>
              THEN <<>> ELSE <<ProductRecord(p)>>)
             \o FilterCollectionProducts(Tail(raw))

\* get_products_from_collection on a successful answer
get_products_from_collection(raw) == FilterCollectionProducts(raw)

RECURSIVE FilterNewestProducts(_)
FilterNewestProducts(raw) ==
    IF raw = <<>> THEN <<>>
    ELSE LET p == Head(raw)
         IN  (IF p.images = <<>> THEN <<>> ELSE <<ProductRecord(p)>>)
             \o FilterNewestProducts(Tail(raw))

\* get_newest_active_products on a successful answer
get_newest_active_products(raw) == FilterNewestProducts(raw)

\* the de-dup by handle at the end of get_all_collections
RECURSIVE DedupByHandle(_, _)
DedupByHandle(collections, seen) ==
    IF collections = <<>> THEN <<>>
    ELSE LET c == Head(collections)
             h == NormHandle(c.handle)
         IN  IF h # "" /\ h \notin seen
             THEN <<c>> \o DedupByHandle(Tail(collections), seen \cup {h})
             ELSE DedupByHandle(Tail(collections), seen)

\* get_all_collections: a failed read is swallowed and contributes nothing
get_all_collections(st, customOk, smartOk) ==
    DedupByHandle((IF customOk THEN st.custom ELSE <<>>)
                  \o (IF smartOk THEN st.smart ELSE <<>>), {})

NoCollection == [id |-> 0, title |-> "", handle |-> ""]

RECURSIVE FirstWithHandle(_, _)
FirstWithHandle(collections, handle) ==
    IF collections = <<>> THEN NoCollection
    ELSE IF NormHandle(Head(collections).handle) = handle THEN Head(collections)
    ELSE FirstWithHandle(Tail(collections), handle)

get_collection_by_handle(st, handle, customOk, smartOk) ==
    LET h == NormHandle(handle)
    IN  IF h = "" THEN NoCollection
        ELSE FirstWithHandle(get_all_collections(st, customOk, smartOk), h)

\* =========================================================================
\* PICK TOPIC + PRODUCTS
\* =========================================================================
\* sorted(..., key=created_at, reverse=True): stable, newest first
RECURSIVE InsertNewest(_, _)
InsertNewest(sorted, p) ==
    IF sorted = <<>> THEN <<p>>
    ELSE IF Head(sorted).created_at >= p.created_at
         THEN <<Head(sorted)>> \o InsertNewest(Tail(sorted), p)
         ELSE <<p>> \o sorted

RECURSIVE sort_newest(_)
sort_newest(products) ==
    IF products = <<>> THEN <<>>
    ELSE InsertNewest(sort_newest(SubSeq(products, 1, Len(products) - 1)),
                      products[Len(products)])

\* random.sample(window, k): every ordered choice of k distinct positions
Samples(window, k) ==
    {[i \in 1..k |-> window[f[i]]] :
        f \in {g \in [1..k -> 1..Len(window)] :
                  \A a, b \in 1..k : a # b => g[a] # g[b]}}

\* choose_products_fresh on a non-empty list: the set of possible results
choose_products_fresh(products, k) ==
    LET sorted == sort_newest(products)
        window == SubSeq(sorted, 1, Min(FRESH_SAMPLE_WINDOW, Len(sorted)))
    IN  Samples(window, Min(k, Len(window)))

SeasonTopicGeneric(season) == "Top New Arrivals"

SeasonTopic(season) ==
    IF season = "black_history" THEN "Black History Vibe Collection"
    ELSE "Valentine's Day Style & Gifts"

NewestTopic == "Top New Arrivals"

\* get_recent_blog_posts on a successful answer
RECURSIVE get_recent_blog_posts(_)
get_recent_blog_posts(articles) ==
    IF articles = <<>> THEN <<>>
    ELSE LET a == Head(articles)
         IN  (IF a.handle # "" /\ a.title # <<>>
              THEN <<[title |-> a.title, url |-> BlogPostUrl(a.handle)]>> ELSE <<>>)
             \o get_recent_blog_posts(Tail(articles))

\* =========================================================================
\* HTML BUILDERS
\* =========================================================================
AUTHOR_NAME == <<Txt(7)>>

\* build_image_html: figure, anchor to the product, image, caption anchor
build_image_html(p) ==
    <<Tag(8), Link(p.url), Tag(40), Tag(4), Tag(12), Link(p.url)>>
    \o <<Txt(5)>> \o p.title \o <<Tag(4), Tag(13), Tag(9)>>

\* "\n".join(build_image_html(p) for p in picks)
RECURSIVE JoinImageBlocks(_)
JoinImageBlocks(picks) ==
    IF picks = <<>> THEN <<>>
    ELSE IF Len(picks) = 1 THEN build_image_html(picks[1])
    ELSE build_image_html(picks[1]) \o <<Spc(1)>> \o JoinImageBlocks(Tail(picks))

\* f"{html}\n<hr/>\n<section>{image_blocks}</section>"
CombinedHtml(html, picks) ==
    html \o <<Spc(1), Tag(5), Spc(1), Tag(9)>> \o JoinImageBlocks(picks) \o <<Tag(10)>>

\* =========================================================================
\* AI BLOG GENERATION
\* =========================================================================
\* A reply of the generation service: kind "json" is a JSON object with the
\* keys whose has-flag is set, "wrapped" is such an object inside other text,
\* "prose" is plain text.  tags is the list of the comma-separated entries of
\* the tags string (a string always has at least one, possibly empty, entry).
Field(has, val) == [has |-> has, val |-> val]
Absent == Field(FALSE, <<>>)

DEFAULT_EXCERPT == <<Txt(56)>>

Raised(why) ==
    [raised |-> TRUE, why |-> why, title |-> <<>>, html |-> <<>>,
     tags |-> <<>>, excerpt |-> <<>>, meta |-> <<>>]

\* lines 378-393: json.loads, the excerpt and meta fallbacks, the return
openai_generate(reply) ==
    IF reply.kind # "json" THEN Raised("JSONDecodeError")
    ELSE
    LET obj      == reply.obj
        excerpt0 == Strip(IF obj.excerpt.has THEN obj.excerpt.val ELSE <<>>)
        fromBody == Strip(Slice(strip_tags(IF obj.html.has THEN obj.html.val ELSE <<>>),
                                EXCERPT_FALLBACK_LEN))
        excerpt  == IF excerpt0 # <<>> THEN excerpt0
                    ELSE IF fromBody # <<>> THEN fromBody
                    ELSE DEFAULT_EXCERPT
        meta0    == Strip(IF obj.meta_description.has THEN obj.meta_description.val ELSE <<>>)
        meta     == Slice(IF meta0 # <<>> THEN meta0 ELSE excerpt, META_CAP)
    IN  IF ~obj.title.has \/ ~obj.html.has \/ ~obj.tags.has THEN Raised("KeyError")
        ELSE [raised |-> FALSE, why |-> "", title |-> obj.title.val,
              html |-> obj.html.val, tags |-> obj.tags.val,
              excerpt |-> Slice(excerpt, EXCERPT_CAP), meta |-> meta]

\* =========================================================================
\* PUBLISH BLOG (DRAFT)
\* =========================================================================
AUTO_PUBLISH == FALSE

BlogSuffix == <<Spc(1), Txt(4)>>
DEFAULT_TAGS == <<<<Txt(7)>> \o BlogSuffix, <<Txt(5)>> \o BlogSuffix, <<Txt(12)>> \o BlogSuffix>>

\* the comprehension at lines 406-409, over the entries of tags.split(",")
RECURSIVE CleanTags(_)
CleanTags(entries) ==
    IF entries = <<>> THEN <<>>
    ELSE (IF Strip(Head(entries)) # <<>>
          THEN <<RemoveSyms(Strip(Head(entries))) \o BlogSuffix>> ELSE <<>>)
         \o CleanTags(Tail(entries))

CapTitleOffByOne(title) == Slice(title, TITLE_CAP + 1)

\* title[:250], line 415
CapTitle(title) == Slice(title, TITLE_CAP)

\* publish_article up to the POST: its locals and the article payload
publish_article(title, body_html, meta_desc, tags, excerpt, image_src, image_alt) ==
    LET meta    == Slice(Strip(meta_desc), META_CAP)
        exc0    == Slice(Strip(excerpt), EXCERPT_CAP)
        exc     == IF exc0 = <<>> THEN DEFAULT_EXCERPT ELSE exc0
        cleaned == CleanTags(tags)
    IN  [title     |-> CapTitle(title),
         author    |-> AUTHOR_NAME,
         tags      |-> IF cleaned = <<>> THEN DEFAULT_TAGS ELSE cleaned,
         body_html |-> body_html,
         published |-> AUTO_PUBLISH,
         excerpt   |-> exc,
         image     |-> [src |-> image_src, alt |-> image_alt],
         meta_desc |-> meta]

\* =========================================================================
\* STATE
\* =========================================================================
VARIABLES
    utc,               \* the runner's UTC clock [y, m, d, h]
    mode,              \* result of the last get_season_mode() of the sweep
    env_ok,            \* STORE, TOKEN and OPENAI_API_KEY are all set
    store,             \* the backend: blogs, collections, products
    reply,             \* what the generation service answers
    pc,                \* position of main()
    blog_id,
    season,            \* season_mode
    hIdx,              \* index of the handle the seasonal loop is at
    seasonal_products,
    pool,              \* the list handed to choose_products_fresh
    topic,             \* chosen_topic
    picks,
    recent_posts,
    draft,             \* what openai_generate returned
    combined_html,
    payload,           \* the article publish_article posts
    tier,              \* which tier produced the picks
    yields,            \* per tier: "untried", "empty" or "some"
    genCalls,          \* calls of the generation service
    blogWrites,        \* POST blogs.json that succeeded
    articleCreates,    \* POST articles.json that succeeded
    xferFailed,        \* a Shopify call of this run has failed
    failedAt,          \* the stage an uncaught exception ended the run in
    stages             \* the stages entered, in order

vars == <<utc, mode, env_ok, store, reply, pc, blog_id, season, hIdx,
          seasonal_products, pool, topic, picks, recent_posts, draft,
          combined_html, payload, tier, yields, genCalls, blogWrites,
          articleCreates, xferFailed, failedAt, stages>>

envVars == <<utc, mode, env_ok, store, reply>>

NoDraft == [raised |-> FALSE, why |-> "none", title |-> <<>>, html |-> <<>>,
            tags |-> <<>>, excerpt |-> <<>>, meta |-> <<>>]

NoPayload == [title |-> <<>>, author |-> <<>>, tags |-> <<>>, body_html |-> <<>>,
              published |-> FALSE, excerpt |-> <<>>,
              image |-> [src |-> 0, alt |-> <<>>], meta_desc |-> <<>>]

NoYields == [seasonal |-> "untried", newest |-> "untried", fallback |-> "untried"]

InitRun ==
    /\ mode = "unset"
    /\ pc = "start"
    /\ blog_id = 0
    /\ season = "unset"
    /\ hIdx = 0
    /\ seasonal_products = <<>>
    /\ pool = <<>>
    /\ topic = ""
    /\ picks = <<>>
    /\ recent_posts = <<>>
    /\ draft = NoDraft
    /\ combined_html = <<>>
    /\ payload = NoPayload
    /\ tier = "none"
    /\ yields = NoYields
    /\ genCalls = 0
    /\ blogWrites = 0
    /\ articleCreates = 0
    /\ xferFailed = FALSE
    /\ failedAt = "none"
    /\ stages = <<>>

\* ------------------------------------------------------------ environments
CollBH1 == [id |-> 1, title |-> "Black History Vibe Collection",
            handle |-> "black-history-vibe-collection"]
CollBH2 == [id |-> 2, title |-> "Black History Vibe", handle |-> "Black-History-Vibe "]
CollVal == [id |-> 3, title |-> "Valentines Day", handle |-> "valentines-day"]
CollTop == [id |-> 4, title |-> "Top New Arrivals", handle |-> "top-new-arrivals"]
CollValSmart == [id |-> 5, title |-> "Valentines Day (auto)", handle |-> "valentines-day"]
CollectionIds == 1..5

AllIds == [i \in 1..NumProducts |-> i]
NewestFirst == [i \in 1..(NumProducts - 1) |-> NumProducts + 1 - i]

RawList(ids) == [i \in 1..Len(ids) |-> RawProduct(ids[i])]

Missing == [present |-> FALSE, ids |-> <<>>]
Holding(ids) == [present |-> TRUE, ids |-> ids]

Blog(id, handle) == [id |-> id, handle |-> handle]
BlogLists == {<<>>, <<Blog(2, "news")>>, <<Blog(2, "news"), Blog(1, BLOG_HANDLE)>>}

MkStore(b1, b2, v, t, newest, blogs) ==
    [custom   |-> (IF b1.present THEN <<CollBH1>> ELSE <<>>)
                  \o (IF v.present THEN <<CollVal>> ELSE <<>>),
     smart    |-> (IF b2.present THEN <<CollBH2>> ELSE <<>>)
                  \o (IF v.present THEN <<CollValSmart>> ELSE <<>>)
                  \o (IF t.present THEN <<CollTop>> ELSE <<>>),
     products |-> [c \in CollectionIds |->
                     CASE c = 1 -> RawList(b1.ids)
                       [] c = 2 -> RawList(b2.ids)
                       [] c = 3 -> RawList(v.ids)
                       [] c = 4 -> RawList(t.ids)
                       [] OTHER -> IF v.present THEN RawList(<<5>>) ELSE <<>>],
     newest   |-> RawList(newest),
     blogs    |-> blogs]

SeasonPools == {Missing, Holding(<<>>), Holding(<<3, 4>>), Holding(AllIds)}

Stores ==
    {MkStore(b1, b2, v, t, n, b) :
        b1 \in SeasonPools, b2 \in SeasonPools,
        v \in {Missing, Holding(<<4, 3>>)}, t \in {Missing, Holding(AllIds)},
        n \in {<<2>>, NewestFirst}, b \in BlogLists}

At(y, m, d, h) == [y |-> y, m |-> m, d |-> d, h |-> h]
RunClocks == {At(StartYear, 6, 15, 12), At(StartYear, 2, 10, 20), At(StartYear, 1, 10, 20)}

GoodObj ==
    [title            |-> Field(TRUE, <<Txt(12)>>),
     html             |-> Field(TRUE, <<Tag(3), Txt(230), Tag(4)>>),
     tags             |-> Field(TRUE, <<<<Txt(5)>>, <<Spc(1), Txt(6)>>>>),
     excerpt          |-> Field(TRUE, <<Txt(40)>>),
     meta_description |-> Field(TRUE, <<Txt(100)>>)]
NoObj ==
    [title |-> Absent, html |-> Absent, tags |-> Absent,
     excerpt |-> Absent, meta_description |-> Absent]

GoodReply    == [kind |-> "json", obj |-> GoodObj]
WrappedReply == [kind |-> "wrapped", obj |-> GoodObj]
ProseReply   == [kind |-> "prose", obj |-> NoObj]

TitleVals == {Absent, Field(TRUE, <<>>), Field(TRUE, <<Txt(12)>>), Field(TRUE, <<Txt(251)>>)}
HtmlVals ==
    {Absent,
     Field(TRUE, <<>>),
     Field(TRUE, <<Tag(3), Spc(2), Tag(4)>>),
     Field(TRUE, <<Tag(3), Txt(199), Spc(3), Txt(50), Tag(4)>>),
     Field(TRUE, <<Tag(3), Txt(20), Link(ExternalUrl), Txt(4), Tag(4), Tag(4)>>),
     Field(TRUE, <<Tag(3), Link(ProductUrl(3)), Txt(9), Tag(4), Tag(4)>>),
     Field(TRUE, <<Tag(3), Link(ProductUrl(5)), Txt(9), Tag(4), Tag(4)>>),
     Field(TRUE, <<Tag(3), Link(ProductUrl(3)), Txt(9), Tag(4),
                   Link(BlogPostUrl("a-post")), Txt(9), Tag(4), Tag(4)>>)}
TagVals ==
    {Absent,
     Field(TRUE, <<<<>>>>),
     Field(TRUE, <<<<Spc(2)>>, <<>>>>),
     Field(TRUE, <<<<Txt(5)>>, <<Spc(1), Sym(1), Txt(6)>>>>)}
ExcerptVals ==
    {Absent, Field(TRUE, <<Spc(2)>>), Field(TRUE, <<Spc(1), Txt(40)>>),
     Field(TRUE, <<Txt(260)>>)}
MetaVals ==
    {Absent, Field(TRUE, <<Spc(3)>>), Field(TRUE, <<Txt(100)>>),
     Field(TRUE, <<Spc(1), Txt(305)>>)}

JsonReplies ==
    {[kind |-> "json",
      obj |-> [title |-> t, html |-> h, tags |-> g, excerpt |-> e, meta_description |-> m]] :
        t \in TitleVals, h \in HtmlVals, g \in TagVals, e \in ExcerptVals, m \in MetaVals}

Replies == JsonReplies \cup {WrappedReply, ProseReply}

ArticleLists ==
    {<<>>,
     <<[handle |-> "a-post", title |-> <<Txt(9)>>], [handle |-> "", title |-> <<Txt(3)>>]>>}

\* =========================================================================
\* MAIN: one action per step of main() between two network calls
\* =========================================================================
Fail(stage) ==
    /\ pc' = "failed"
    /\ failedAt' = stage

\* line 437: the configuration check
Start ==
    /\ pc = "start"
    /\ IF env_ok THEN pc' = "blogs" /\ UNCHANGED failedAt ELSE Fail("config")
    /\ UNCHANGED <<envVars, blog_id, season, hIdx, seasonal_products, pool, topic,
                   picks, recent_posts, draft, combined_html, payload, tier, yields,
                   genCalls, blogWrites, articleCreates, xferFailed, stages>>

RECURSIVE BlogWithHandle(_, _)
BlogWithHandle(blogs, handle) ==
    IF blogs = <<>> THEN 0
    ELSE IF Head(blogs).handle = handle THEN Head(blogs).id
    ELSE BlogWithHandle(Tail(blogs), handle)

\* get_blog_id_by_handle, lines 82-88: the read of blogs.json
GetBlogs ==
    /\ pc = "blogs"
    /\ \E ok \in BOOLEAN :
         IF ~ok
         THEN /\ Fail("blog")
              /\ xferFailed' = TRUE
              /\ UNCHANGED blog_id
         ELSE /\ xferFailed' = xferFailed
              /\ UNCHANGED failedAt
              /\ IF BlogWithHandle(store.blogs, BLOG_HANDLE) # 0
                 THEN blog_id' = BlogWithHandle(store.blogs, BLOG_HANDLE) /\ pc' = "select"
                 ELSE IF store.blogs # <<>>
                 THEN blog_id' = store.blogs[1].id /\ pc' = "select"
                 ELSE blog_id' = blog_id /\ pc' = "create_blog"
    /\ UNCHANGED <<envVars, season, hIdx, seasonal_products, pool, topic, picks,
                   recent_posts, draft, combined_html, payload, tier, yields,
                   genCalls, blogWrites, articleCreates, stages>>

\* get_blog_id_by_handle, lines 89-91: no blog exists, one is created
CreateBlog ==
    /\ pc = "create_blog"
    /\ \E ok \in BOOLEAN :
         IF ok
         THEN /\ blog_id' = 3   \* created["blog"]["id"], an identifier no listed blog has
              /\ blogWrites' = blogWrites + 1
              /\ pc' = "select"
              /\ UNCHANGED <<failedAt, xferFailed>>
         ELSE /\ Fail("blog")
              /\ xferFailed' = TRUE
              /\ UNCHANGED <<blog_id, blogWrites>>
    /\ UNCHANGED <<envVars, season, hIdx, seasonal_products, pool, topic, picks,
                   recent_posts, draft, combined_html, payload, tier, yields,
                   genCalls, articleCreates, stages>>

\* pick_topic_and_products, lines 251-258
SelectStart ==
    /\ pc = "select"
    /\ season' = get_season_mode(utc)
    /\ stages' = Append(stages, "Select")
    /\ IF season' # "None" /\ SEASON_COLLECTION_HANDLES(season') # <<>>
       THEN pc' = "seasonal" /\ hIdx' = 1
       ELSE pc' = "newest" /\ hIdx' = hIdx
    /\ UNCHANGED <<envVars, blog_id, seasonal_products, pool, topic, picks,
                   recent_posts, draft, combined_html, payload, tier, yields,
                   genCalls, blogWrites, articleCreates, xferFailed, failedAt>>

\* one round of the loop at lines 259-262
SeasonalHandle ==
    /\ pc = "seasonal"
    /\ hIdx <= Len(SEASON_COLLECTION_HANDLES(season))
    /\ \E customOk, smartOk, productsOk \in BOOLEAN :
         LET c == get_collection_by_handle(store, SEASON_COLLECTION_HANDLES(season)[hIdx],
                                           customOk, smartOk)
         IN  IF c = NoCollection
             THEN /\ hIdx' = hIdx + 1
                  /\ xferFailed' = (xferFailed \/ ~customOk \/ ~smartOk)
                  /\ UNCHANGED <<pc, failedAt, seasonal_products>>
             ELSE IF productsOk
             THEN /\ hIdx' = hIdx + 1
                  /\ seasonal_products' = seasonal_products
                         \o get_products_from_collection(store.products[c.id])
                  /\ xferFailed' = (xferFailed \/ ~customOk \/ ~smartOk)
                  /\ UNCHANGED <<pc, failedAt>>
             ELSE /\ Fail("select")
                  /\ xferFailed' = TRUE
                  /\ UNCHANGED <<hIdx, seasonal_products>>
    /\ UNCHANGED <<envVars, blog_id, season, pool, topic, picks, recent_posts, draft,
                   combined_html, payload, tier, yields, genCalls, blogWrites,
                   articleCreates, stages>>

\* lines 264-268: the seasonal list is sorted and, if non-empty, sampled
SeasonalPick ==
    /\ pc = "seasonal"
    /\ hIdx > Len(SEASON_COLLECTION_HANDLES(season))
    /\ IF sort_newest(seasonal_products) # <<>>
       THEN /\ \E s \in choose_products_fresh(sort_newest(seasonal_products), PICKS_PER_POST) :
                 picks' = s
            /\ pool' = sort_newest(seasonal_products)
            /\ topic' = SeasonTopic(season)
            /\ tier' = "seasonal"
            /\ yields' = [yields EXCEPT !.seasonal = "some"]
            /\ pc' = "recent"
       ELSE /\ yields' = [yields EXCEPT !.seasonal = "empty"]
            /\ pc' = "newest"
            /\ UNCHANGED <<picks, pool, topic, tier>>
    /\ UNCHANGED <<envVars, blog_id, season, hIdx, seasonal_products, recent_posts,
                   draft, combined_html, payload, genCalls, blogWrites,
                   articleCreates, xferFailed, failedAt, stages>>

\* lines 273-278: newest products store-wide
NewestTier ==
    /\ pc = "newest"
    /\ \E ok \in BOOLEAN :
         IF ~ok
         THEN /\ Fail("select")
              /\ xferFailed' = TRUE
              /\ UNCHANGED <<picks, pool, topic, tier, yields>>
         ELSE LET newest == sort_newest(get_newest_active_products(store.newest))
              IN  /\ UNCHANGED xferFailed
                  /\ IF newest # <<>>
                     THEN /\ \E s \in choose_products_fresh(newest, PICKS_PER_POST) :
                               picks' = s
                          /\ pool' = newest
                          /\ topic' = NewestTopic
                          /\ tier' = "newest"
                          /\ yields' = [yields EXCEPT !.newest = "some"]
                          /\ pc' = "recent"
                          /\ UNCHANGED failedAt
                     ELSE /\ yields' = [yields EXCEPT !.newest = "empty"]
                          /\ pc' = "fallback"
                          /\ UNCHANGED <<picks, pool, topic, tier, failedAt>>
    /\ UNCHANGED <<envVars, blog_id, season, hIdx, seasonal_products, recent_posts,
                   draft, combined_html, payload, genCalls, blogWrites,
                   articleCreates, stages>>

\* lines 283-293: any collection at all
FallbackTier ==
    /\ pc = "fallback"
    /\ \E customOk, smartOk, productsOk \in BOOLEAN :
         LET collections == get_all_collections(store, customOk, smartOk)
         IN  IF collections = <<>>
             THEN /\ Fail("select")
                  /\ xferFailed' = (xferFailed \/ ~customOk \/ ~smartOk)
                  /\ yields' = [yields EXCEPT !.fallback = "empty"]
                  /\ UNCHANGED <<picks, pool, topic, tier>>
             ELSE \E i \in 1..Len(collections) :
                    LET chosen   == collections[i]
                        products == get_products_from_collection(store.products[chosen.id])
                    IN  IF ~productsOk
                        THEN /\ Fail("select")
                             /\ xferFailed' = TRUE
                             /\ UNCHANGED <<picks, pool, topic, tier, yields>>
                        ELSE IF products = <<>>
                        THEN /\ Fail("select")
                             /\ xferFailed' = (xferFailed \/ ~customOk \/ ~smartOk)
                             /\ yields' = [yields EXCEPT !.fallback = "empty"]
                             /\ UNCHANGED <<picks, pool, topic, tier>>
                        ELSE /\ \E s \in choose_products_fresh(products, PICKS_PER_POST) :
                                  picks' = s
                             /\ pool' = products
                             /\ topic' = chosen.title
                             /\ tier' = "fallback"
                             /\ yields' = [yields EXCEPT !.fallback = "some"]
                             /\ xferFailed' = (xferFailed \/ ~customOk \/ ~smartOk)
                             /\ pc' = "recent"
                             /\ UNCHANGED failedAt
    /\ UNCHANGED <<envVars, blog_id, season, hIdx, seasonal_products, recent_posts,
                   draft, combined_html, payload, genCalls, blogWrites,
                   articleCreates, stages>>

\* lines 269, 279, 294: the recent posts are read and the selection returns
RecentPosts ==
    /\ pc = "recent"
    /\ \E ok \in BOOLEAN, articles \in ArticleLists :
         IF ok
         THEN /\ recent_posts' = get_recent_blog_posts(articles)
              /\ pc' = "generate"
              /\ UNCHANGED <<failedAt, xferFailed>>
         ELSE /\ Fail("select")
              /\ xferFailed' = TRUE
              /\ UNCHANGED recent_posts
    /\ hIdx' = 0
    /\ seasonal_products' = <<>>
    /\ pool' = <<>>
    /\ UNCHANGED <<envVars, blog_id, season, topic, picks, draft, combined_html,
                   payload, tier, yields, genCalls, blogWrites, articleCreates, stages>>

GenerateGoesOnAfterRaise ==
    /\ pc = "generate"
    /\ genCalls' = genCalls + 1
    /\ stages' = Append(stages, "Generate")
    /\ draft' = openai_generate(reply)
    /\ pc' = "assemble"
    /\ UNCHANGED <<envVars, blog_id, season, hIdx, seasonal_products, pool, topic,
                   picks, recent_posts, combined_html, payload, tier, yields,
                   blogWrites, articleCreates, xferFailed, failedAt>>

\* line 444: openai_generate, one call of the generation service
Generate ==
    /\ pc = "generate"
    /\ genCalls' = genCalls + 1
    /\ stages' = Append(stages, "Generate")
    /\ draft' = openai_generate(reply)
    /\ IF draft'.raised THEN Fail("generate") ELSE pc' = "assemble" /\ UNCHANGED failedAt
    /\ UNCHANGED <<envVars, blog_id, season, hIdx, seasonal_products, pool, topic,
                   picks, recent_posts, combined_html, payload, tier, yields,
                   blogWrites, articleCreates, xferFailed>>

\* lines 447-451: the image blocks are appended to the generated body
Assemble ==
    /\ pc = "assemble"
    /\ combined_html' = CombinedHtml(draft.html, picks)
    /\ stages' = Append(stages, "Assemble")
    /\ pc' = "publish"
    /\ UNCHANGED <<envVars, blog_id, season, hIdx, seasonal_products, pool, topic,
                   picks, recent_posts, draft, payload, tier, yields, genCalls,
                   blogWrites, articleCreates, xferFailed, failedAt>>

\* lines 453-465: publish_article; an HTTPError is caught and printed,
\* any other exception of the POST leaves main
Publish ==
    /\ pc = "publish"
    /\ stages' = Append(stages, "Publish")
    /\ payload' = publish_article(draft.title, combined_html, draft.meta, draft.tags,
                                  draft.excerpt, picks[1].image, picks[1].title)
    /\ \E outcome \in {"created", "http_error", "network_error"} :
         IF outcome = "created"
         THEN /\ articleCreates' = articleCreates + 1
              /\ pc' = "done"
              /\ UNCHANGED <<xferFailed, failedAt>>
         ELSE IF outcome = "http_error"
         THEN /\ pc' = "rejected"
              /\ xferFailed' = TRUE
              /\ UNCHANGED <<articleCreates, failedAt>>
         ELSE /\ Fail("publish")
              /\ xferFailed' = TRUE
              /\ UNCHANGED articleCreates
    /\ UNCHANGED <<envVars, blog_id, season, hIdx, seasonal_products, pool, topic,
                   picks, recent_posts, draft, combined_html, tier, yields, genCalls,
                   blogWrites>>

Next ==
    \/ Start
    \/ GetBlogs
    \/ CreateBlog
    \/ SelectStart
    \/ SeasonalHandle
    \/ SeasonalPick
    \/ NewestTier
    \/ FallbackTier
    \/ RecentPosts
    \/ Generate
    \/ Assemble
    \/ Publish

\* runs over every store, with a few replies of the generation service
Init ==
    /\ InitRun
    /\ utc \in RunClocks
    /\ env_ok \in BOOLEAN
    /\ store \in Stores
    /\ reply \in {GoodReply, ProseReply}

Spec == Init /\ [][Next]_vars

\* runs over every reply of the generation service, with two stores
GenStoreSeasonal ==
    MkStore(Holding(<<3, 4>>), Missing, Missing, Missing, <<4, 3>>,
            <<Blog(2, "news"), Blog(1, BLOG_HANDLE)>>)
GenStoreBare ==
    MkStore(Missing, Missing, Missing, Holding(<<3, 4>>), <<2>>, <<>>)

InitGen ==
    /\ InitRun
    /\ utc \in {At(StartYear, 6, 15, 12), At(StartYear, 2, 10, 20)}
    /\ env_ok = TRUE
    /\ store \in {GenStoreSeasonal, GenStoreBare}
    /\ reply \in Replies

GenSpec == InitGen /\ [][Next]_vars

\* =========================================================================
\* The calendar: the clock sweeps NumYears years, get_season_mode is called
\* =========================================================================
ClockStart == At(StartYear, 1, 1, 0)

AdvanceClock(dt) ==
    IF dt.h + HourStep < 24 THEN [dt EXCEPT !.h = dt.h + HourStep]
    ELSE [NextDay(dt) EXCEPT !.h = (dt.h + HourStep) % 24]

runVars == <<env_ok, store, reply, pc, blog_id, season, hIdx, seasonal_products,
             pool, topic, picks, recent_posts, draft, combined_html, payload, tier,
             yields, genCalls, blogWrites, articleCreates, xferFailed, failedAt,
             stages>>

InitSeason ==
    /\ InitRun
    /\ utc = ClockStart
    /\ env_ok = TRUE
    /\ store = GenStoreSeasonal
    /\ reply = GoodReply

Tick ==
    /\ utc.y < StartYear + NumYears
    /\ utc' = AdvanceClock(utc)
    /\ mode' = "unset"
    /\ UNCHANGED runVars

CallSeasonMode ==
    /\ mode = "unset"
    /\ mode' = get_season_mode(utc)
    /\ UNCHANGED <<utc, runVars>>

NextSeason == Tick \/ CallSeasonMode

SeasonSpec == InitSeason /\ [][NextSeason]_vars

\* =========================================================================
\* PROPERTIES
\* =========================================================================
Generated   == genCalls > 0
Returned    == tier # "none"
PayloadBuilt == Len(stages) = 4
PickIds     == {picks[i].id : i \in 1..Len(picks)}
PickUrls    == {picks[i].url : i \in 1..Len(picks)}
\* the entries of a tags string that are not blank
TagList(entries) == {i \in 1..Len(entries) : Strip(entries[i]) # <<>>}

AllCollections(st) == {st.custom[i] : i \in 1..Len(st.custom)}
                      \cup {st.smart[i] : i \in 1..Len(st.smart)}
\* identifiers of the active products with an image that a collection holds
EligibleIn(st, c) ==
    {st.products[c.id][i].id :
        i \in {j \in 1..Len(st.products[c.id]) :
                  /\ st.products[c.id][j].status \in {"", "active"}
                  /\ st.products[c.id][j].images # <<>>}}
CuratedCollections(st, sn) ==
    {c \in AllCollections(st) :
        \E i \in 1..Len(SEASON_COLLECTION_HANDLES(sn)) :
            NormHandle(c.handle) = SEASON_COLLECTION_HANDLES(sn)[i]}
CuratedIds(st, sn) == UNION {EligibleIn(st, c) : c \in CuratedCollections(st, sn)}

\* C1: for every raw reply of the generation service (a JSON object with all
\* fields, one with missing fields, one wrapped in other text, plain prose)
\* openai_generate does not raise and returns a non-empty title, a non-empty
\* body and at least one tag.
C1_GenerateAlwaysYieldsDraft ==
    Generated =>
        /\ ~draft.raised
        /\ draft.title # <<>>
        /\ draft.html # <<>>
        /\ TagList(draft.tags) # {}

\* what the three-stage reading of a reply would yield: a title and a body
YieldsTitleAndBody(r) ==
    \/ r.kind = "prose"
    \/ /\ r.obj.title.has /\ r.obj.title.val # <<>>
       /\ r.obj.html.has /\ r.obj.html.val # <<>>

\* C2: the generation service is called at most twice, a second time exactly
\* when the primary reply yields no non-empty title and body, and the run
\* goes on to assembly with some draft.
C2_RepairExactlyWhenNeeded ==
    Generated =>
        /\ genCalls <= 2
        /\ (genCalls = 2) <=> ~YieldsTitleAndBody(reply)
        /\ failedAt # "generate"

\* C3: the selection has min(PICKS_PER_POST, number of distinct available
\* products) products, pairwise distinct by identifier.
C3_DistinctPicks ==
    pc = "recent" =>
        /\ Len(picks) = Min(3, Cardinality({pool[i].id : i \in 1..Len(pool)}))
        /\ \A i, j \in 1..Len(picks) : i # j => picks[i].id # picks[j].id

\* C4: in a season whose curated collections hold an active product with an
\* image, every product the selection returns belongs to one of them,
\* whatever the catalog calls answered.
C4_SeasonalPicksOnly ==
    (Returned /\ season \in {"black_history", "valentines"} /\ CuratedIds(store, season) # {})
        => PickIds \subseteq CuratedIds(store, season)

\* C5: the body sent to the publisher has no link whose target is not the
\* URL of a product of the selection.
C5_OnlySelectedLinks ==
    PayloadBuilt => LinkTargets(payload.body_html) \subseteq PickUrls

\* C6: after a failed Catalog or Publisher call the run has ended in
\* failure: nothing further is executed.
C6_TransportFailureIsFatal ==
    xferFailed => pc \in {"failed", "rejected"}

\* C7: the excerpt and the meta description leaving openai_generate are at
\* most 250 and 300 characters; title, excerpt and meta description in
\* publish_article are at most 250, 250 and 300; a reply that is a JSON
\* object with title, html and tags never fails the run, whatever the lengths.
C7_LengthCaps ==
    /\ (Generated /\ ~draft.raised) =>
           /\ StrLen(draft.excerpt) <= 250
           /\ StrLen(draft.meta) <= 300
           /\ draft.excerpt # <<>>
    /\ PayloadBuilt =>
           /\ StrLen(payload.title) <= 250
           /\ StrLen(payload.excerpt) <= 250
           /\ StrLen(payload.meta_desc) <= 300
           /\ payload.title = Slice(reply.obj.title.val, 250)
    /\ (Generated /\ reply.kind = "json" /\ reply.obj.title.has
          /\ reply.obj.html.has /\ reply.obj.tags.has) => failedAt # "generate"

C7_Witness ==
    /\ pc = "done"
    /\ StrLen(reply.obj.title.val) > 250
    /\ StrLen(reply.obj.excerpt.val) > 250
    /\ StrLen(reply.obj.meta_description.val) > 300
    /\ StrLen(payload.title) = 250

SeasonLabel(sn) ==
    CASE sn = "black_history" -> "Black History Vibe Collection"
      [] sn = "valentines"    -> "Valentine's Day Style & Gifts"
      [] OTHER                -> "no season"

NewestIds(st) == {st.newest[i].id : i \in 1..Len(st.newest)}

TierOrder ==
    /\ yields.newest # "untried" => yields.seasonal # "some"
    /\ yields.fallback # "untried" => yields.newest = "empty"
    /\ (tier = "seasonal") <=> (yields.seasonal = "some")
    /\ (tier = "newest") <=> (yields.newest = "some")
    /\ (tier = "fallback") <=> (yields.fallback = "some")
    /\ yields.fallback = "empty" => (pc = "failed" /\ ~Returned /\ picks = <<>>)

LabelOfTier ==
    /\ tier = "seasonal" => (topic = SeasonLabel(season) /\ PickIds \subseteq CuratedIds(store, season))
    /\ tier = "newest" => (topic = "Top New Arrivals" /\ PickIds \subseteq NewestIds(store))
    /\ tier = "fallback" =>
           \E c \in AllCollections(store) : topic = c.title /\ PickIds \subseteq EligibleIn(store, c)

\* C8 as stated: the tiers are tried in order, each only if the one before
\* yielded nothing, and the label is the season's name exactly when the
\* seasonal tier produced the picks, "Top New Arrivals" exactly when the
\* store-wide tier did, the collection's title when the fallback did.
C8_LabelIdentifiesTier ==
    /\ TierOrder
    /\ LabelOfTier
    /\ Returned => ((topic = SeasonLabel(season)) <=> (tier = "seasonal"))
    /\ Returned => ((topic = "Top New Arrivals") <=> (tier = "newest"))

\* C8 amended: the tiers are tried in order, each only if the one before
\* yielded nothing; the label is the season's name if the seasonal tier
\* produced the picks, "Top New Arrivals" if the store-wide tier did and the
\* chosen collection's title if the fallback did (a title that may equal one
\* of the two fixed labels); when every tier yields nothing no selection
\* is returned.
C8_TiersAndLabels ==
    /\ TierOrder
    /\ LabelOfTier
    /\ (Returned /\ tier # "fallback") =>
           /\ (topic = SeasonLabel(season)) <=> (tier = "seasonal")
           /\ (topic = "Top New Arrivals") <=> (tier = "newest")

C8_Witness ==
    /\ pc = "done"
    /\ tier = "fallback"
    /\ season = "black_history"
    /\ yields.seasonal = "empty"
    /\ topic = "Valentines Day"

IsPrefix(a, b) == Len(a) <= Len(b) /\ a = SubSeq(b, 1, Len(a))

StageOrder ==
    /\ IsPrefix(stages, <<"Select", "Generate", "Assemble", "Publish">>)
    /\ articleCreates <= 1
    /\ articleCreates = 1 =>
           /\ picks # <<>> /\ Returned
           /\ Generated /\ ~draft.raised
           /\ PayloadBuilt

\* C9 as stated: Select, Generate, Assemble, Publish in order; the article is
\* created at most once, after a non-empty selection and a draft; a run that
\* fails in selection or generation has written nothing to the blog backend.
C9_NoWriteBeforeFailure ==
    /\ StageOrder
    /\ failedAt \in {"select", "generate"} => (articleCreates = 0 /\ blogWrites = 0)

\* C9 amended: as stated, except that the run that fails in selection or
\* generation has created no article (it may have created the blog, when the
\* store had none, before the selection began).
C9_NoArticleBeforeFailure ==
    /\ StageOrder
    /\ failedAt \in {"select", "generate"} => articleCreates = 0
    /\ blogWrites <= 1
    /\ blogWrites = 1 => store.blogs = <<>>

C9_Witness ==
    /\ failedAt = "generate"
    /\ blogWrites = 1
    /\ articleCreates = 0
    /\ stages = <<"Select", "Generate">>

InBlackHistoryWindow(n) == n.m = 2 \/ (n.m = 1 /\ n.d > 31 - 15)

\* days from n to the next 14 February on or after n
DaysToValentines(n) ==
    LET thisYear == [y |-> n.y, m |-> 2, d |-> 14, h |-> 0]
        nextYear == [y |-> n.y + 1, m |-> 2, d |-> 14, h |-> 0]
    IN  IF Ordinal(thisYear) >= Ordinal(n) THEN Ordinal(thisYear) - Ordinal(n)
        ELSE Ordinal(nextYear) - Ordinal(n)

\* C10: on every Pacific date get_season_mode returns 'black_history'
\* exactly in February and the last 15 days of January, 'valentines'
\* exactly outside that window when 14 February is 0 to 45 days ahead,
\* and None otherwise.
C10_SeasonWindows ==
    mode # "unset" =>
        LET n == now_pacific(utc)
        IN  mode = IF InBlackHistoryWindow(n) THEN "black_history"
                   ELSE IF DaysToValentines(n) <= 45 THEN "valentines"
                   ELSE "None"

====
